---------------------------- MODULE Spec2Model ----------------------------
(***************************************************************************)
(* Model of neurst/layers/common_layers.py: the lifecycle of one layer     *)
(* object (PrePostProcessingWrapper, TransformerFFN, MultiHeadDenseLayer   *)
(* or PositionEmbeddingWrapper): construction, the lazy build on the first *)
(* invocation, call, and get_config.                                       *)
(*                                                                         *)
(* Conventions.  Python None is the string "None" where the other values   *)
(* are strings and NoTime where they are integers.  A dropout rate is held *)
(* in percent (0.1 is 10).  An exception is the record                     *)
(* [status |-> <exception class>, why |-> <the raising place>].            *)
(***************************************************************************)
EXTENDS Integers, Sequences, FiniteSets, TLC

VARIABLES ctor, obj, allocs, first, last, prev

vars == <<ctor, obj, allocs, first, last, prev>>

(***************************************************************************)
(* Bounds of the model.                                                    *)
(***************************************************************************)
MaxVal == 2
MaxWidth == 4
MaxHeads == 2
MaxLen == 2
MaxDim == 4
MaxPositions == 2

(***************************************************************************)
(* Generic helpers.                                                        *)
(***************************************************************************)
Sgn(n) == IF n > 0 THEN 1 ELSE IF n < 0 THEN -1 ELSE 0

RECURSIVE SumSeq(_)
SumSeq(s) == IF s = << >> THEN 0 ELSE Head(s) + SumSeq(Tail(s))

RECURSIVE ProdSeq(_)
ProdSeq(s) == IF s = << >> THEN 1 ELSE Head(s) * ProdSeq(Tail(s))

NoObject == [cls |-> "none"]
NoCall == [op |-> "none"]
Raise(exc, why) == [status |-> exc, why |-> why]

\* A weight or sub-layer slot of an object: unset (the attribute does not
\* exist yet), None, or an allocated object with its identity and shape.
Unset == [id |-> 0, shape |-> << >>]
None == [id |-> -1, shape |-> << >>]
Alloc(n, shape) == [id |-> n, shape |-> shape]

(***************************************************************************)
(* Python's binding of keyword arguments to a constructor's parameters.    *)
(***************************************************************************)
Required(cls) ==
    CASE cls = "PrePostProcessingWrapper" -> {"layer"}
      [] cls = "TransformerFFN" -> {"filter_size", "output_size", "dropout_rate"}
      [] cls = "MultiHeadDenseLayer" -> {"output_units", "num_heads"}
      [] cls = "PositionEmbeddingWrapper" -> {"timing", "embedding_layer"}

DefaultDropoutRate == 10
DefaultMaxPositions == 512

Defaults(cls) ==
    CASE cls = "PrePostProcessingWrapper" ->
           [dropout_rate |-> DefaultDropoutRate, name |-> "layer_prepostprocess"]
      [] cls = "TransformerFFN" ->
           [activation |-> "relu", name |-> "ffn"]
      [] cls = "MultiHeadDenseLayer" ->
           [kernel_initializer |-> "None", bias_initializer |-> "zeros",
            activation |-> "None", use_bias |-> TRUE,
            is_output_transform |-> FALSE, name |-> "transform"]
      [] cls = "PositionEmbeddingWrapper" ->
           [max_positions |-> DefaultMaxPositions, name |-> "position_emb_wrapper"]

Params(cls) == Required(cls) \cup DOMAIN Defaults(cls)

\* cls(**kwargs): a TypeError for an unexpected keyword or a missing
\* required parameter, else the full binding with the defaults filled in.
Bind(cls, kwargs) ==
    IF ~(DOMAIN kwargs \subseteq Params(cls))
    THEN [status |-> "TypeError", why |-> "unexpected keyword argument"]
    ELSE IF ~(Required(cls) \subseteq DOMAIN kwargs)
    THEN [status |-> "TypeError", why |-> "missing required argument"]
    ELSE [status |-> "ok", why |-> "",
          args |-> [k \in Params(cls) |->
                      IF k \in DOMAIN kwargs THEN kwargs[k] ELSE Defaults(cls)[k]]]

(***************************************************************************)
(* PrePostProcessingWrapper.                                               *)
(* A tensor here is a vector of two integers (the hidden axis).            *)
(***************************************************************************)
LayerKinds == {"zeros", "identity", "negate"}

\* tf.keras.layers.LayerNormalization over the last axis with the initial
\* gamma = 1, beta = 0: each entry minus the mean, over the deviation, which
\* for two entries is the sign of their difference (rounded).
LayerNormalization(x) == <<Sgn(x[1] - x[2]), Sgn(x[2] - x[1])>>

\* The wrapped layer, called as layer(y, *args, **kwargs).
InnerLayer(kind, y) ==
    CASE kind = "zeros" -> <<0, 0>>
      [] kind = "identity" -> y
      [] kind = "negate" -> <<0 - y[1], 0 - y[2]>>

\* tf.nn.dropout(y, rate): an entry is zeroed where the mask drops it and
\* scaled by 1/(1 - rate) where it is kept (rounded toward zero).
DropScale(v, rate) ==
    IF v >= 0 THEN (v * 100) \div (100 - rate)
    ELSE 0 - (((0 - v) * 100) \div (100 - rate))

Dropout(y, rate, mask) ==
    IF rate = 0 THEN y
    ELSE [i \in 1..2 |-> IF mask[i] THEN DropScale(y[i], rate) ELSE 0]

TensorAdd(a, b) == <<a[1] + b[1], a[2] + b[2]>>

PP_init(args) ==
    [status |-> "ok", why |-> "",
     self |-> [cls |-> "PrePostProcessingWrapper",
               name |-> args.name,
               _dropout_rate |-> args.dropout_rate,
               _layer |-> args.layer,
               _norm_layer |-> None,
               built |-> FALSE]]

PP_get_config(self) ==
    [dropout_rate |-> self._dropout_rate, name |-> self.name]

\* build: one LayerNormalization sub-layer is created.
PP_build(self, n) ==
    [self |-> [self EXCEPT !._norm_layer = Alloc(n + 1, << >>)], allocs |-> n + 1]

\* The residual connection: the original input plus the sub-layer's output.
ResidualOnNormalized(inputs, y) ==
    <<LayerNormalization(inputs)[1] + y[1], LayerNormalization(inputs)[2] + y[2]>>

Residual(inputs, y) == TensorAdd(inputs, y)

PP_call_missing_flag(self, inputs, args, kwargs, mask) ==
    [status |-> "KeyError", why |-> "is_training", self |-> self,
     trace |-> << >>, inputs |-> inputs, args |-> args, kwargs |-> kwargs,
     used |-> {}]

\* A call that creates its normalization layer itself, on every call.
PP_call_creates_norm(self, inputs, args, kwargs, mask) ==
    IF "is_training" \notin DOMAIN kwargs
    THEN PP_call_missing_flag(self, inputs, args, kwargs, mask)
    ELSE LET is_training == kwargs.is_training
             norm == Alloc(self._norm_layer.id + 1, << >>)
             y1 == LayerNormalization(inputs)
             y2 == InnerLayer(self._layer, y1)
             y3 == IF is_training THEN Dropout(y2, self._dropout_rate, mask) ELSE y2
         IN [status |-> "ok", why |-> "",
             self |-> [self EXCEPT !._norm_layer = norm],
             trace |-> <<"n", "layer">>
                         \o (IF is_training THEN <<"d">> ELSE << >>) \o <<"a">>,
             inputs |-> inputs, args |-> args, kwargs |-> kwargs,
             used |-> {norm.id},
             layer_in |-> y1, layer_args |-> args, layer_kwargs |-> kwargs,
             layer_out |-> y2, mask |-> mask, y |-> y3,
             out |-> Residual(inputs, y3)]

PP_call(self, inputs, args, kwargs, mask) ==
    IF "is_training" \notin DOMAIN kwargs
    THEN PP_call_missing_flag(self, inputs, args, kwargs, mask)
    ELSE LET is_training == kwargs.is_training
             y1 == LayerNormalization(inputs)
             y2 == InnerLayer(self._layer, y1)
             y3 == IF is_training THEN Dropout(y2, self._dropout_rate, mask) ELSE y2
         IN [status |-> "ok", why |-> "", self |-> self,
             trace |-> <<"n", "layer">>
                         \o (IF is_training THEN <<"d">> ELSE << >>) \o <<"a">>,
             inputs |-> inputs, args |-> args, kwargs |-> kwargs,
             used |-> {self._norm_layer.id},
             layer_in |-> y1, layer_args |-> args, layer_kwargs |-> kwargs,
             layer_out |-> y2, mask |-> mask, y |-> y3,
             out |-> Residual(inputs, y3)]


(***************************************************************************)
(* TransformerFFN.  A tensor here is its shape.                            *)
(***************************************************************************)
\* get_activation (neurst.utils.activations): None for None, else the function.
get_activation(activation) == activation

FFN_init(args) ==
    [status |-> "ok", why |-> "",
     self |-> [cls |-> "TransformerFFN",
               name |-> args.name,
               _dropout_rate |-> args.dropout_rate,
               _filter_size |-> args.filter_size,
               _output_size |-> args.output_size,
               _activation |-> args.activation,
               _activation_fn |-> get_activation(args.activation),
               _conv1 |-> None,
               _conv2 |-> None,
               built |-> FALSE]]

FFN_get_config(self) ==
    [filter_size |-> self._filter_size,
     output_size |-> self._output_size,
     dropout_rate |-> self._dropout_rate,
     activation |-> self._activation,
     name |-> self.name]

\* build: the two Dense sub-layers are created (each with its units).
FFN_build(self, n) ==
    [self |-> [self EXCEPT !._conv1 = Alloc(n + 1, <<self._filter_size>>),
                           !._conv2 = Alloc(n + 2, <<self._output_size>>)],
     allocs |-> n + 2]

\* A Dense sub-layer maps [..., hidden] to [..., units].
Dense(layer, x) == SubSeq(x, 1, Len(x) - 1) \o layer.shape

FFN_call(self, inputs, is_training) ==
    LET o1 == Dense(self._conv1, inputs)
        o2 == Dense(self._conv2, o1)
    IN [status |-> "ok", why |-> "", self |-> self,
        trace |-> <<"dense1">> \o (IF is_training THEN <<"dropout">> ELSE << >>)
                    \o <<"dense2">>,
        inputs |-> inputs, is_training |-> is_training,
        used |-> {self._conv1.id, self._conv2.id},
        out |-> o2]

(***************************************************************************)
(* tf.nest over the structures used for output_units: an int, or a list of *)
(* structures.                                                             *)
(***************************************************************************)
Scalar(n) == [tag |-> "int", v |-> n]
Nested(items) == [tag |-> "list", items |-> items]

is_nested(s) == s.tag = "list"

RECURSIVE flatten(_)
RECURSIVE flatten_items(_)
flatten(s) == IF s.tag = "list" THEN flatten_items(s.items) ELSE <<s>>
flatten_items(items) ==
    IF items = << >> THEN << >>
    ELSE flatten(Head(items)) \o flatten_items(Tail(items))

\* pack_sequence_as(structure, flat): the leaves of flat, in order, in the
\* nesting of structure.
RECURSIVE pack_sequence_as(_, _)
RECURSIVE pack_items(_, _)
pack_sequence_as(structure, flat) ==
    IF structure.tag = "list" THEN Nested(pack_items(structure.items, flat))
    ELSE flat[1]
pack_items(items, flat) ==
    IF items = << >> THEN << >>
    ELSE LET k == Len(flatten(Head(items)))
         IN <<pack_sequence_as(Head(items), SubSeq(flat, 1, k))>>
              \o pack_items(Tail(items), SubSeq(flat, k + 1, Len(flat)))

\* The integers of a flattened structure of ints.
Values(flat) == [i \in 1..Len(flat) |-> flat[i].v]

(***************************************************************************)
(* Tensor primitives on shapes.                                            *)
(***************************************************************************)
Tensor(shape, act) == [tag |-> "tensor", shape |-> shape, act |-> act]

\* reshape(x, target) with at most one -1 in target: defined when the
\* element counts agree (the -1 is inferred).
ReshapeOk(shape, target) ==
    LET known == [i \in 1..Len(target) |-> IF target[i] = -1 THEN 1 ELSE target[i]]
        hasInfer == \E i \in 1..Len(target) : target[i] = -1
    IN IF hasInfer
       THEN ProdSeq(known) > 0 /\ ProdSeq(shape) % ProdSeq(known) = 0
       ELSE ProdSeq(shape) = ProdSeq(known)

Reshape(shape, target) ==
    LET known == [i \in 1..Len(target) |-> IF target[i] = -1 THEN 1 ELSE target[i]]
    IN [i \in 1..Len(target) |->
          IF target[i] = -1 THEN ProdSeq(shape) \div ProdSeq(known) ELSE target[i]]

(***************************************************************************)
(* MultiHeadDenseLayer.  A tensor here is its shape.                       *)
(***************************************************************************)
MHD_self(args) ==
    [cls |-> "MultiHeadDenseLayer",
     name |-> args.name,
     _output_units |-> args.output_units,
     _num_heads |-> args.num_heads,
     _kernel_initializer |-> args.kernel_initializer,
     _bias_initializer |-> args.bias_initializer,
     _use_bias |-> args.use_bias,
     _is_output_transform |-> args.is_output_transform,
     _activation |-> args.activation,
     _activation_fn |-> get_activation(args.activation),
     _flatten_output_units |-> Values(flatten(args.output_units)),
     _kernel |-> Unset,
     _bias |-> Unset,
     built |-> FALSE]

\* A constructor that also rejects a width the heads do not divide.
MHD_init_checks_heads(args) ==
    IF args.is_output_transform /\ is_nested(args.output_units)
    THEN Raise("AssertionError", "not tf.nest.is_nested(self._output_units)")
    ELSE IF \E i \in 1..Len(flatten(args.output_units)) :
              flatten(args.output_units)[i].v % args.num_heads # 0
    THEN Raise("AssertionError", "output_units % num_heads == 0")
    ELSE [status |-> "ok", why |-> "", self |-> MHD_self(args)]

\* A constructor without the check of the nesting.
MHD_init_unchecked(args) == [status |-> "ok", why |-> "", self |-> MHD_self(args)]

MHD_init(args) ==
    IF args.is_output_transform /\ is_nested(args.output_units)
    THEN Raise("AssertionError", "not tf.nest.is_nested(self._output_units)")
    ELSE [status |-> "ok", why |-> "", self |-> MHD_self(args)]

\* A get_config that leaves is_output_transform out.
MHD_get_config_short(self) ==
    [output_units |-> self._output_units,
     num_heads |-> self._num_heads,
     kernel_initializer |-> self._kernel_initializer,
     bias_initializer |-> self._bias_initializer,
     activation |-> self._activation,
     use_bias |-> self._use_bias,
     name |-> self.name]

MHD_get_config(self) ==
    [output_units |-> self._output_units,
     num_heads |-> self._num_heads,
     kernel_initializer |-> self._kernel_initializer,
     bias_initializer |-> self._bias_initializer,
     activation |-> self._activation,
     use_bias |-> self._use_bias,
     is_output_transform |-> self._is_output_transform,
     name |-> self.name]

compat_kernel_shape(self, input_shape) ==
    LET r == Len(input_shape)
    IN IF self._is_output_transform
       THEN <<input_shape[r] * input_shape[r - 1], self._output_units.v>>
       ELSE <<input_shape[r], SumSeq(self._flatten_output_units)>>

kernel_shape(self) ==
    IF self._is_output_transform
    THEN <<self._num_heads, -1, self._output_units.v>>
    ELSE <<-1, SumSeq(self._flatten_output_units)>>

bias_shape(self) == <<SumSeq(self._flatten_output_units)>>

MHD_build(self, n, input_shape) ==
    LET k == Alloc(n + 1, compat_kernel_shape(self, input_shape))
    IN IF self._use_bias
       THEN [self |-> [self EXCEPT !._kernel = k,
                                   !._bias = Alloc(n + 2, bias_shape(self))],
             allocs |-> n + 2]
       ELSE [self |-> [self EXCEPT !._kernel = k, !._bias = None],
             allocs |-> n + 1]

\* tf.einsum("abcd,cde->abe", inputs, kernel) and ("abc,cd->abd", ...): the
\* ranks are those of the subscripts and the contracted axes agree.
EinsumOk(is_output_transform, inputs, kernel) ==
    IF is_output_transform
    THEN Len(inputs) = 4 /\ inputs[3] = kernel[1] /\ inputs[4] = kernel[2]
    ELSE Len(inputs) = 3 /\ inputs[3] = kernel[1]

Einsum(is_output_transform, inputs, kernel) ==
    IF is_output_transform THEN <<inputs[1], inputs[2], kernel[3]>>
    ELSE <<inputs[1], inputs[2], kernel[2]>>

\* tf.split(output, sizes, axis=-1): the i-th piece has sizes[i] channels.
Split(output, sizes) ==
    [i \in 1..Len(sizes) |-> SubSeq(output, 1, Len(output) - 1) \o <<sizes[i]>>]

\* The per-head reshape with the two new axes swapped.
HeadShapeSwapped(x, num_units, num_heads) ==
    SubSeq(x, 1, Len(x) - 1) \o <<num_units \div num_heads, num_heads>>

\* The target of the per-head reshape of one split piece.
HeadShape(x, num_units, num_heads) ==
    SubSeq(x, 1, Len(x) - 1) \o <<num_heads, num_units \div num_heads>>

MHD_fail(self, inputs, exc, why) ==
    [status |-> exc, why |-> why, self |-> self, inputs |-> inputs,
     used |-> {self._kernel.id} \cup (IF self._use_bias THEN {self._bias.id} ELSE {})]

MHD_call(self, inputs) ==
    IF ~ReshapeOk(self._kernel.shape, kernel_shape(self))
    THEN MHD_fail(self, inputs, "InvalidArgumentError", "reshape kernel")
    ELSE
    LET kernel == Reshape(self._kernel.shape, kernel_shape(self))
    IN IF ~EinsumOk(self._is_output_transform, inputs, kernel)
       THEN MHD_fail(self, inputs, "InvalidArgumentError", "einsum")
       ELSE
       LET output == Einsum(self._is_output_transform, inputs, kernel)
           units == self._flatten_output_units
           pieces == Split(output, units)
           targets == [i \in 1..Len(units) |->
                         HeadShape(pieces[i], units[i], self._num_heads)]
           act == self._activation_fn
       IN IF self._is_output_transform
          THEN [status |-> "ok", why |-> "", self |-> self, inputs |-> inputs,
                used |-> {self._kernel.id}
                           \cup (IF self._use_bias THEN {self._bias.id} ELSE {}),
                out |-> pack_sequence_as(self._output_units, <<Tensor(output, act)>>)]
          ELSE IF \E i \in 1..Len(units) : ~ReshapeOk(pieces[i], targets[i])
          THEN MHD_fail(self, inputs, "InvalidArgumentError", "reshape heads")
          ELSE [status |-> "ok", why |-> "", self |-> self, inputs |-> inputs,
                used |-> {self._kernel.id}
                           \cup (IF self._use_bias THEN {self._bias.id} ELSE {}),
                out |-> pack_sequence_as(
                          self._output_units,
                          [i \in 1..Len(units) |-> Tensor(targets[i], act)])]

(***************************************************************************)
(* Floating point, by class: "zero", "one", "pos" and "neg" (finite, of    *)
(* that sign), "fin" (finite, of unknown sign), "pinf", "ninf", "nan".     *)
(***************************************************************************)
FromInt(n) == IF n = 0 THEN "zero" ELSE IF n = 1 THEN "one"
              ELSE IF n > 0 THEN "pos" ELSE "neg"

FSign(a) == CASE a \in {"one", "pos", "pinf"} -> 1
              [] a \in {"neg", "ninf"} -> -1
              [] OTHER -> 0

FNeg(a) == CASE a \in {"one", "pos"} -> "neg"
             [] a = "neg" -> "pos"
             [] a = "pinf" -> "ninf"
             [] a = "ninf" -> "pinf"
             [] OTHER -> a

FMul(a, b) ==
    IF a = "nan" \/ b = "nan" THEN "nan"
    ELSE IF a \in {"pinf", "ninf"} \/ b \in {"pinf", "ninf"}
    THEN (IF a = "zero" \/ b = "zero" THEN "nan"
          ELSE IF a = "fin" \/ b = "fin" THEN "nan"
          ELSE IF FSign(a) * FSign(b) > 0 THEN "pinf" ELSE "ninf")
    ELSE IF a = "zero" \/ b = "zero" THEN "zero"
    ELSE IF a = "one" THEN b
    ELSE IF b = "one" THEN a
    ELSE IF a = "fin" \/ b = "fin" THEN "fin"
    ELSE IF FSign(a) * FSign(b) > 0 THEN "pos" ELSE "neg"

\* a / b for a finite a: IEEE division, by zero included.
FDiv(a, b) ==
    IF a = "nan" \/ b = "nan" THEN "nan"
    ELSE IF b = "zero"
    THEN (IF FSign(a) > 0 THEN "pinf" ELSE IF FSign(a) < 0 THEN "ninf" ELSE "nan")
    ELSE IF b \in {"pinf", "ninf"} THEN "zero"
    ELSE IF a = "zero" THEN "zero"
    ELSE IF a = "fin" \/ b = "fin" THEN "fin"
    ELSE IF FSign(a) * FSign(b) > 0 THEN "pos" ELSE "neg"

FExp(a) == CASE a = "nan" -> "nan"
             [] a = "zero" -> "one"
             [] a = "pinf" -> "pinf"
             [] a = "ninf" -> "zero"
             [] OTHER -> "pos"

FSin(a) == CASE a = "zero" -> "zero"
             [] a \in {"nan", "pinf", "ninf"} -> "nan"
             [] OTHER -> "fin"

FCos(a) == CASE a = "zero" -> "one"
             [] a \in {"nan", "pinf", "ninf"} -> "nan"
             [] OTHER -> "fin"

(***************************************************************************)
(* PositionEmbeddingWrapper.  A tensor is [shape, data]: data names the    *)
(* embedding layer's output, or is the expression computed from it.        *)
(***************************************************************************)
NoTime == -1

Timings == {"None", "sinusoids", "emb"}

PEW_init(args) ==
    LET self == [cls |-> "PositionEmbeddingWrapper",
                 name |-> args.name,
                 _timing |-> args.timing,
                 _embedding_layer |-> args.embedding_layer,
                 _embedding_dim |-> args.embedding_layer.embedding_dim,
                 _max_positions |-> args.max_positions,
                 _position_emb_table |-> Unset,
                 built |-> FALSE]
    IN IF args.timing \notin Timings
       THEN Raise("AssertionError", "Unknown position embedding type")
       ELSE [status |-> "ok", why |-> "", self |-> self]

PEW_get_config(self) ==
    [timing |-> self._timing,
     max_positions |-> self._max_positions,
     embedding_dim |-> self._embedding_dim,
     name |-> self.name]

PEW_build(self, n) ==
    IF self._timing = "emb"
    THEN [self |-> [self EXCEPT !._position_emb_table =
                      Alloc(n + 1, <<self._max_positions, self._embedding_dim>>)],
          allocs |-> n + 1]
    ELSE [self |-> self, allocs |-> n]

\* tf.cast(num_timescales, dtype) - 1, the divisor of the increment.
TimescaleDivisor(num_timescales) == FromInt(num_timescales - 1)

\* The signal row of one position: sines, cosines, then the padding.
SignalRow(position, channels) ==
    LET num_timescales == channels \div 2
        log_timescale_increment == FDiv("pos", TimescaleDivisor(num_timescales))
        inv_timescales == [i \in 1..num_timescales |->
            FMul("one", FExp(FMul(FromInt(i - 1), FNeg(log_timescale_increment))))]
        scaled_time == [i \in 1..num_timescales |->
            FMul(FromInt(position), inv_timescales[i])]
    IN [i \in 1..num_timescales |-> FSin(scaled_time[i])]
         \o [i \in 1..num_timescales |-> FCos(scaled_time[i])]
         \o [i \in 1..(channels % 2) |-> "zero"]

add_sinusoids_timing_signal(x, time) ==
    LET ndims == Len(x.shape)
        channels == x.shape[ndims]
    IN IF ndims \notin {2, 3}
       THEN Raise("ValueError", "need a Tensor with rank 2 or 3")
       ELSE LET position == IF ndims = 3 THEN [i \in 1..x.shape[2] |-> i - 1]
                            ELSE <<time>>
                signal == [p \in 1..Len(position) |-> SignalRow(position[p], channels)]
            IN [status |-> "ok", why |-> "",
                out |-> [shape |-> x.shape,
                         data |-> [op |-> "add", x |-> x.data, signal |-> signal]]]

\* tf.gather(table, position): a row index outside the table raises on a
\* CPU and yields zeros on a GPU.
Gather(table, position, device) ==
    IF \A i \in 1..Len(position) : position[i] >= 0 /\ position[i] < table.shape[1]
    THEN [status |-> "ok", why |-> "", rows |-> position]
    ELSE IF device = "CPU"
    THEN Raise("InvalidArgumentError", "gather index out of range")
    ELSE [status |-> "ok", why |-> "",
          rows |-> [i \in 1..Len(position) |->
                      IF position[i] >= 0 /\ position[i] < table.shape[1]
                      THEN position[i] ELSE -1]]

\* A failing call that re-creates the positional table on its way out.
PEW_time_required_resets(self, emb, time, kwargs, device) ==
    [status |-> "ValueError", why |-> "time should be provided",
     self |-> [self EXCEPT !._position_emb_table =
                 IF @.id > 0 THEN Alloc(@.id + 1, @.shape) ELSE @],
     emb |-> emb, time |-> time, kwargs |-> kwargs, used |-> {}]

PEW_time_required(self, emb, time, kwargs, device) ==
    [status |-> "ValueError", why |-> "time should be provided", self |-> self,
     emb |-> emb, time |-> time, kwargs |-> kwargs, used |-> {}]

\* A call that does not compare the dimensions.
PEW_dim_unchecked(self, emb) == TRUE

PEW_dim_check(self, emb) == emb.shape[Len(emb.shape)] = self._embedding_dim

\* A pass-through that looks at the timing alone.
PEW_skip_ignores_mode(timing, mode) == timing = "None"

\* Whether call returns the embedding as it is.
PEW_skip(timing, mode) == timing = "None" \/ mode # "embedding"

PEW_call(self, emb, time, kwargs, device) ==
    LET mode == IF "mode" \in DOMAIN kwargs THEN kwargs.mode ELSE "embedding"
        x_ndims == Len(emb.shape)
        io == [self |-> self, emb |-> emb, time |-> time, kwargs |-> kwargs]
    IN IF PEW_skip(self._timing, mode)
       THEN io @@ [status |-> "ok", why |-> "", used |-> {}, out |-> emb]
       ELSE IF ~PEW_dim_check(self, emb)
       THEN io @@ [status |-> "AssertionError", used |-> {},
                   why |-> "position embedding dimension should match"]
       ELSE IF x_ndims = 2 /\ time = NoTime
       THEN PEW_time_required(self, emb, time, kwargs, device)
       ELSE IF self._timing = "sinusoids"
       THEN io @@ [used |-> {}]
               @@ add_sinusoids_timing_signal(
                    [shape |-> emb.shape,
                     data |-> [op |-> "mul", x |-> emb.data,
                               by |-> <<"sqrt", self._embedding_dim>>]], time)
       ELSE IF x_ndims \notin {2, 3}
       THEN io @@ [status |-> "ValueError", used |-> {},
                   why |-> "need a Tensor with rank 2 or 3"]
       ELSE LET position == IF x_ndims = 2 THEN <<time>>
                            ELSE [i \in 1..emb.shape[2] |-> i - 1]
                g == Gather(self._position_emb_table, position, device)
            IN IF g.status # "ok"
               THEN io @@ [used |-> {self._position_emb_table.id}] @@ g
               ELSE io @@ [status |-> "ok", why |-> "",
                           used |-> {self._position_emb_table.id},
                           out |-> [shape |-> emb.shape,
                                    data |-> [op |-> "add", x |-> emb.data,
                                              table |-> self._position_emb_table.id,
                                              rows |-> g.rows]]]

(***************************************************************************)
(* The object model: dispatch by class, and the Keras protocol of          *)
(* layer(...) (build on the first invocation, then call).                  *)
(***************************************************************************)
ClassInit(cls, args) ==
    CASE cls = "PrePostProcessingWrapper" -> PP_init(args)
      [] cls = "TransformerFFN" -> FFN_init(args)
      [] cls = "MultiHeadDenseLayer" -> MHD_init(args)
      [] cls = "PositionEmbeddingWrapper" -> PEW_init(args)

get_config(self) ==
    CASE self.cls = "PrePostProcessingWrapper" -> PP_get_config(self)
      [] self.cls = "TransformerFFN" -> FFN_get_config(self)
      [] self.cls = "MultiHeadDenseLayer" -> MHD_get_config(self)
      [] self.cls = "PositionEmbeddingWrapper" -> PEW_get_config(self)

\* The weight and sub-layer slots of an object.
Weights(self) ==
    CASE self.cls = "PrePostProcessingWrapper" -> <<self._norm_layer>>
      [] self.cls = "TransformerFFN" -> <<self._conv1, self._conv2>>
      [] self.cls = "MultiHeadDenseLayer" -> <<self._kernel, self._bias>>
      [] self.cls = "PositionEmbeddingWrapper" -> <<self._position_emb_table>>

\* cls(**kwargs): the binding, then __init__.
New(cls, kwargs) ==
    LET b == Bind(cls, kwargs)
    IN IF b.status # "ok" THEN b @@ [args |-> << >>]
       ELSE ClassInit(cls, b.args) @@ [args |-> b.args]

\* Layer.__call__'s build step: build runs when the layer is not built yet,
\* and the layer is then marked built.
MaybeBuild(self, n, built) ==
    IF self.built THEN [self |-> self, allocs |-> n]
    ELSE [self |-> [built.self EXCEPT !.built = TRUE], allocs |-> built.allocs]

Construct(cls, kwargs) ==
    /\ ctor.cls = "none"
    /\ LET r == New(cls, kwargs)
       IN /\ ctor' = [cls |-> cls, kwargs |-> kwargs, args |-> r.args,
                      status |-> r.status, why |-> r.why]
          /\ obj' = IF r.status = "ok" THEN r.self ELSE NoObject
    /\ UNCHANGED <<allocs, first, last, prev>>

\* The invocation layer(...): b is the build step's result, r the call's.
Invoke(b, r) ==
    /\ obj' = r.self
    /\ allocs' = b.allocs
    /\ first' = IF obj.built THEN first ELSE Weights(b.self)
    /\ last' = [k \in (DOMAIN r \ {"self"}) \cup {"op"} |->
                  IF k = "op" THEN "call" ELSE r[k]]
    /\ prev' = IF last.op = "call" THEN [status |-> last.status, why |-> last.why]
               ELSE prev
    /\ UNCHANGED ctor

\* An operation that leaves the object alone; prev keeps the outcome of the
\* invocation before it.
Observe(result) ==
    /\ last' = result
    /\ prev' = IF last.op = "call" THEN [status |-> last.status, why |-> last.why]
               ELSE prev
    /\ UNCHANGED <<ctor, obj, allocs, first>>

(***************************************************************************)
(* The inputs.                                                             *)
(***************************************************************************)
Widths == 1..MaxWidth
Rates == {0, 50}

PP_kwargs ==
    {[layer |-> k] : k \in LayerKinds}
      \cup {[layer |-> k, dropout_rate |-> r, name |-> "ffn_prepost_wrapper"] :
              k \in LayerKinds, r \in Rates}

PP_inputs == {<<a, b>> : a \in 0..MaxVal, b \in 0..MaxVal}
PP_args == {<< >>, <<"bias">>}
PP_call_kwargs ==
    {<< >>, [is_training |-> TRUE], [is_training |-> FALSE],
     [is_training |-> FALSE, cache |-> "cache"]}
Masks == {<<a, b>> : a \in BOOLEAN, b \in BOOLEAN}

FFN_kwargs ==
    {[filter_size |-> f, output_size |-> o, dropout_rate |-> r] :
        f \in Widths, o \in 1..MaxHeads, r \in Rates}
      \cup {[filter_size |-> f, output_size |-> o, dropout_rate |-> r,
             activation |-> "gelu", name |-> "ffn_1"] :
              f \in Widths, o \in 1..MaxHeads, r \in Rates}

HiddenSizes == {1, 2}
Rank3 == {<<1, l, c>> : l \in 0..MaxLen, c \in HiddenSizes}
Rank4 == {<<1, l, h, d>> : l \in 0..MaxLen, h \in 1..MaxHeads, d \in HiddenSizes}

OutputUnits ==
    {Scalar(a) : a \in Widths}
      \cup {Nested(<<Scalar(a)>>) : a \in Widths}
      \cup {Nested(<<Scalar(a), Scalar(b)>>) : a \in Widths, b \in Widths}
      \cup {Nested(<<Scalar(a), Nested(<<Scalar(b)>>)>>) : a \in Widths, b \in Widths}

MHD_extras ==
    {<< >>,
     [is_output_transform |-> TRUE],
     [is_output_transform |-> TRUE, use_bias |-> FALSE, activation |-> "relu"],
     [kernel_initializer |-> "glorot_uniform", bias_initializer |-> "zeros",
      activation |-> "relu", use_bias |-> FALSE, is_output_transform |-> FALSE,
      name |-> "qkv_transform"]}

MHD_kwargs ==
    {[output_units |-> u, num_heads |-> h] @@ e :
        u \in OutputUnits, h \in 1..MaxHeads, e \in MHD_extras}

PEW_kwargs ==
    {[timing |-> t, embedding_layer |-> [embedding_dim |-> d]] :
        t \in Timings \cup {"learned"}, d \in 1..MaxDim}
      \cup {[timing |-> t, embedding_layer |-> [embedding_dim |-> d],
             max_positions |-> MaxPositions, name |-> "pos_emb"] :
              t \in Timings \cup {"learned"}, d \in 1..MaxDim}

\* What the wrapped embedding layer returns.
EmbOutputs ==
    {[shape |-> sh, data |-> [op |-> "lookup"]] :
        sh \in {<<1, c>> : c \in 1..MaxDim}
                 \cup {<<1, l, c>> : l \in 0..MaxLen, c \in 1..MaxDim}
                 \cup {<<1, 1, 1, c>> : c \in 1..MaxDim}}
\* The time index matters to a 2-D output only.
Times(emb) == IF Len(emb.shape) = 2 THEN {NoTime} \cup 0..MaxPositions
              ELSE {NoTime, 0}
PEW_call_kwargs == {<< >>, [mode |-> "embedding"], [mode |-> "linear"]}
Devices == {"CPU", "GPU"}

(***************************************************************************)
(* The actions.                                                            *)
(***************************************************************************)
Init ==
    /\ ctor = [cls |-> "none"]
    /\ obj = NoObject
    /\ allocs = 0
    /\ first = << >>
    /\ last = NoCall
    /\ prev = [status |-> "none", why |-> ""]

Construct_PP == \E kw \in PP_kwargs : Construct("PrePostProcessingWrapper", kw)

Construct_FFN == \E kw \in FFN_kwargs : Construct("TransformerFFN", kw)

Construct_MHD == \E kw \in MHD_kwargs : Construct("MultiHeadDenseLayer", kw)

Construct_PEW == \E kw \in PEW_kwargs : Construct("PositionEmbeddingWrapper", kw)

Invoke_PP ==
    /\ obj.cls = "PrePostProcessingWrapper"
    /\ \E inputs \in PP_inputs, args \in PP_args, kwargs \in PP_call_kwargs :
       \E mask \in (IF "is_training" \in DOMAIN kwargs /\ kwargs.is_training
                     THEN Masks ELSE {<<TRUE, TRUE>>}) :
         LET b == MaybeBuild(obj, allocs, PP_build(obj, allocs))
         IN Invoke(b, PP_call(b.self, inputs, args, kwargs, mask))

Invoke_FFN ==
    /\ obj.cls = "TransformerFFN"
    /\ \E inputs \in Rank3, is_training \in BOOLEAN :
         LET b == MaybeBuild(obj, allocs, FFN_build(obj, allocs))
         IN Invoke(b, FFN_call(b.self, inputs, is_training))

Invoke_MHD ==
    /\ obj.cls = "MultiHeadDenseLayer"
    /\ \E inputs \in Rank3 \cup Rank4 :
         LET b == MaybeBuild(obj, allocs, MHD_build(obj, allocs, inputs))
         IN Invoke(b, MHD_call(b.self, inputs))

Invoke_PEW ==
    /\ obj.cls = "PositionEmbeddingWrapper"
    /\ \E emb \in EmbOutputs, kwargs \in PEW_call_kwargs :
       \E time \in Times(emb),
          device \in (IF obj._timing = "emb" THEN Devices ELSE {"CPU"}) :
         LET b == MaybeBuild(obj, allocs, PEW_build(obj, allocs))
         IN Invoke(b, PEW_call(b.self, emb, time, kwargs, device))

\* layer.get_config()
GetConfig ==
    /\ obj.cls # "none"
    /\ Observe([op |-> "get_config", status |-> "ok", why |-> "",
                 ret |-> get_config(obj)])

\* type(layer)(**layer.get_config()), then get_config() of the new object.
Reconstruct ==
    /\ obj.cls # "none"
    /\ LET r == New(obj.cls, get_config(obj))
       IN Observe([op |-> "from_config", status |-> r.status, why |-> r.why,
                   ret |-> IF r.status = "ok" THEN get_config(r.self) ELSE << >>])

Next ==
    \/ Construct_PP
    \/ Construct_FFN
    \/ Construct_MHD
    \/ Construct_PEW
    \/ Invoke_PP
    \/ Invoke_FFN
    \/ Invoke_MHD
    \/ Invoke_PEW
    \/ GetConfig
    \/ Reconstruct

Spec == Init /\ [][Next]_vars

(***************************************************************************)
(* The properties.                                                         *)
(***************************************************************************)
PPCalled == obj.cls = "PrePostProcessingWrapper" /\ last.op = "call"
MHDCalled == obj.cls = "MultiHeadDenseLayer" /\ last.op = "call"
PEWCalled == obj.cls = "PositionEmbeddingWrapper" /\ last.op = "call"

C3_NestedOutputTransformRejected ==
    ctor.cls = "MultiHeadDenseLayer" =>
      /\ ctor.status # "ok" <=>
           (ctor.args.is_output_transform /\ is_nested(ctor.args.output_units))
      /\ ctor.status # "ok" =>
           (obj = NoObject /\ last = NoCall /\ allocs = 0)

C3_Witness ==
    /\ ctor.cls = "MultiHeadDenseLayer"
    /\ ctor.status = "AssertionError"
    /\ ctor.args.is_output_transform
    /\ is_nested(ctor.args.output_units)

RECURSIVE SameNesting(_, _)
SameNesting(a, b) ==
    IF b.tag = "list"
    THEN /\ a.tag = "list"
         /\ Len(a.items) = Len(b.items)
         /\ \A i \in 1..Len(b.items) : SameNesting(a.items[i], b.items[i])
    ELSE a.tag = "tensor"

AllDivisible(self) ==
    \A i \in 1..Len(self._flatten_output_units) :
       self._flatten_output_units[i] % self._num_heads = 0

\* C4: in split mode with every width divisible by num_heads, a call on a
\* [batch, length, hidden] input returns tensors in the nesting of
\* output_units, the i-th of shape [batch, length, num_heads,
\* output_units_i / num_heads], and the widths num_heads * units_per_head_i
\* sum to the kernel's width, sum(output_units).
C4_SplitShapes ==
    (/\ MHDCalled
     /\ ~obj._is_output_transform
     /\ AllDivisible(obj)
     /\ Len(last.inputs) = 3
     /\ last.inputs[3] = obj._kernel.shape[1]) =>
      LET units == Values(flatten(obj._output_units))
          outs == flatten(last.out)
      IN /\ last.status = "ok"
         /\ SameNesting(last.out, obj._output_units)
         /\ Len(outs) = Len(units)
         /\ \A i \in 1..Len(units) :
              outs[i].shape = <<last.inputs[1], last.inputs[2], obj._num_heads,
                                units[i] \div obj._num_heads>>
         /\ SumSeq([i \in 1..Len(outs) |-> outs[i].shape[3] * outs[i].shape[4]])
              = obj._kernel.shape[2]
         /\ obj._kernel.shape[2] = SumSeq(units)

C4_Witness ==
    /\ MHDCalled
    /\ last.status = "ok"
    /\ ~obj._is_output_transform
    /\ obj._num_heads = 2
    /\ obj._output_units = Nested(<<Scalar(4), Nested(<<Scalar(2)>>)>>)
    /\ last.out = Nested(<<Tensor(<<1, 2, 2, 2>>, "None"),
                           Nested(<<Tensor(<<1, 2, 2, 1>>, "None")>>)>>)

\* C5: an object's weights and sub-layers are allocated once, by the build
\* of its first invocation: before it there is none and no call has run,
\* after it the slots hold what build allocated, nothing else was ever
\* allocated, and a call uses those weights only.
C5_WeightsAllocatedOnce ==
    obj.cls # "none" =>
      LET slots == Weights(obj)
          live == {i \in 1..Len(slots) : slots[i].id > 0}
      IN /\ ~obj.built =>
              (allocs = 0 /\ live = {} /\ last.op # "call")
         /\ obj.built =>
              /\ slots = first
              /\ allocs = Cardinality(live)
              /\ \A i \in live : \A j \in live : slots[i].id = slots[j].id => i = j
              /\ last.op = "call" => last.used \subseteq {slots[i].id : i \in live}

\* C5's case: a second invocation has run on an object whose build
\* allocated two weights.
C5_Witness ==
    /\ obj.cls \in {"MultiHeadDenseLayer", "TransformerFFN"}
    /\ obj.built
    /\ prev.status = "ok"
    /\ last.op = "call"
    /\ allocs = 2
    /\ Cardinality(last.used) = 2

NonDivisible(args) ==
    \E i \in 1..Len(flatten(args.output_units)) :
       flatten(args.output_units)[i].v % args.num_heads # 0

\* C2 as claimed: a width that num_heads does not divide makes the
\* constructor fail with is_output_transform=True and the call fail in
\* split mode, and no call returns a tensor.
C2_IndivisibleRejected ==
    (ctor.cls = "MultiHeadDenseLayer" /\ NonDivisible(ctor.args)) =>
      /\ ctor.args.is_output_transform => ctor.status # "ok"
      /\ ~ctor.args.is_output_transform => ctor.status = "ok"
      /\ last.op = "call" => last.status # "ok"

\* C2, amended: the constructor makes no check of the divisibility (with a
\* width num_heads does not divide it fails only for a nested output_units
\* in output-transform mode).  In split mode every call on an input that
\* holds an element fails and returns nothing.  In output-transform mode a
\* call on a [batch, length, num_heads, units_per_head] input of the built
\* width succeeds and returns [batch, length, output_units].
C2_IndivisibleSplitFailsAtCall ==
    (ctor.cls = "MultiHeadDenseLayer" /\ NonDivisible(ctor.args)) =>
      /\ ctor.status # "ok" =>
           (ctor.args.is_output_transform /\ is_nested(ctor.args.output_units))
      /\ (last.op = "call" /\ ~obj._is_output_transform
            /\ ProdSeq(last.inputs) > 0) =>
           (last.status # "ok" /\ "out" \notin DOMAIN last)
      /\ (last.op = "call" /\ obj._is_output_transform
            /\ Len(last.inputs) = 4
            /\ last.inputs[3] = obj._num_heads
            /\ last.inputs[3] * last.inputs[4] = obj._kernel.shape[1]) =>
           /\ last.status = "ok"
           /\ last.out.shape = <<last.inputs[1], last.inputs[2], obj._output_units.v>>

\* C2's case: an output transform of width 3 over 2 heads was called and
\* returned, after a call.
C2_Witness ==
    /\ MHDCalled
    /\ obj._is_output_transform
    /\ obj._num_heads = 2
    /\ obj._output_units = Scalar(3)
    /\ last.status = "ok"
    /\ last.out.shape = <<1, 2, 3>>
    /\ prev.status = "ok"

Mode(kwargs) == IF "mode" \in DOMAIN kwargs THEN kwargs.mode ELSE "embedding"

TimeOmitted ==
    /\ PEWCalled
    /\ obj._timing \in {"sinusoids", "emb"}
    /\ Mode(last.kwargs) = "embedding"
    /\ Len(last.emb.shape) = 2
    /\ last.time = NoTime

\* The positions a call looks up are rows of the table.
InTable(self, emb, time) ==
    IF Len(emb.shape) = 2 THEN time >= 0 /\ time < self._max_positions
    ELSE emb.shape[2] <= self._max_positions

\* C6: a single-step call that omits time fails and returns nothing, leaves
\* the weights as build made them, and the call after it, given a time
\* index (of the table, for the learned timing), succeeds.
C6_TimeRequired ==
    /\ TimeOmitted =>
         /\ last.status \in {"ValueError", "AssertionError"}
         /\ "out" \notin DOMAIN last
         /\ Weights(obj) = first
         /\ last.emb.shape[2] = obj._embedding_dim =>
              (last.status = "ValueError" /\ last.why = "time should be provided")
    /\ (/\ PEWCalled
        /\ prev.why = "time should be provided"
        /\ obj._timing \in {"sinusoids", "emb"}
        /\ Mode(last.kwargs) = "embedding"
        /\ Len(last.emb.shape) = 2
        /\ last.emb.shape[2] = obj._embedding_dim
        /\ last.time # NoTime
        /\ (obj._timing = "emb" => InTable(obj, last.emb, last.time))) =>
         /\ last.status = "ok"
         /\ last.out.shape = last.emb.shape
         /\ last.out.data.op = "add"
         /\ Weights(obj) = first
         /\ obj._timing = "emb" =>
              (last.out.data.table = first[1].id /\ last.out.data.rows = <<last.time>>)

\* C6's case: the call after a failed one, with time given, used the table
\* that build allocated.
C6_Witness ==
    /\ PEWCalled
    /\ prev.why = "time should be provided"
    /\ obj._timing = "emb"
    /\ Len(last.emb.shape) = 2
    /\ last.time = 1
    /\ last.status = "ok"
    /\ last.out.data.table = 1
    /\ obj._position_emb_table.id = 1

\* C7: call returns the embedding layer's output as it is, without an
\* error, whenever timing is None or mode is not "embedding", whatever the
\* rank, the time and the last dimension; a returned value differs from the
\* embedding output only for timing "sinusoids" or "emb" in mode
\* "embedding", and there it always does.
C7_PassThrough ==
    PEWCalled =>
      /\ (obj._timing = "None" \/ Mode(last.kwargs) # "embedding") =>
           (last.status = "ok" /\ last.out = last.emb)
      /\ (last.status = "ok" /\ last.out # last.emb) =>
           (obj._timing \in {"sinusoids", "emb"} /\ Mode(last.kwargs) = "embedding")
      /\ (last.status = "ok" /\ obj._timing \in {"sinusoids", "emb"}
            /\ Mode(last.kwargs) = "embedding") =>
           (last.out.data # last.emb.data /\ last.out.data.op = "add")

\* C7's case: a learned timing in mode "linear", a 4-D output of another
\* width and no time: the output is returned as it is.
C7_Witness ==
    /\ PEWCalled
    /\ obj._timing = "emb"
    /\ Mode(last.kwargs) = "linear"
    /\ Len(last.emb.shape) = 4
    /\ last.emb.shape[4] # obj._embedding_dim
    /\ last.time = NoTime
    /\ last.status = "ok"
    /\ last.out = last.emb

DimMismatch == "position embedding dimension should match"

\* C8 as claimed: no call on a constructed and built wrapper fails because
\* of a dimension mismatch.
C8_NoMismatchAtCall ==
    (PEWCalled /\ obj.built) => last.why # DimMismatch

\* C8, amended: the wrapper's dimension is the embedding layer's declared
\* embedding_dim, construction fails for an unknown timing only, and the
\* mismatch with the embedding output's last dimension is found by an
\* assertion at call time: a call fails with it exactly when timing is not
\* None, mode is "embedding" and the dimensions differ.
C8_MismatchAssertedAtCall ==
    ctor.cls = "PositionEmbeddingWrapper" =>
      /\ ctor.status = "ok" <=> ctor.args.timing \in Timings
      /\ ctor.status = "ok" =>
           obj._embedding_dim = ctor.args.embedding_layer.embedding_dim
      /\ last.op = "call" =>
           ((last.status = "AssertionError" /\ last.why = DimMismatch) <=>
              (/\ obj._timing # "None"
               /\ Mode(last.kwargs) = "embedding"
               /\ last.emb.shape[Len(last.emb.shape)] # obj._embedding_dim))

\* C8's case: a built wrapper whose earlier call succeeded fails a call on
\* the mismatch.
C8_Witness ==
    /\ PEWCalled
    /\ obj.built
    /\ prev.status = "ok"
    /\ last.status = "AssertionError"
    /\ last.why = DimMismatch

Restrict(f, keys) == [k \in keys |-> f[k]]

\* C9 as claimed: get_config returns the constructor's parameters with the
\* values passed, and constructing from it is a round trip.
C9_ConfigRoundTrip ==
    /\ last.op = "get_config" => last.ret = ctor.args
    /\ last.op = "from_config" => (last.status = "ok" /\ last.ret = get_config(obj))

\* C9, amended: for TransformerFFN and MultiHeadDenseLayer get_config is the
\* constructor's binding and constructing from it is a round trip;
\* PrePostProcessingWrapper's get_config leaves out layer and
\* PositionEmbeddingWrapper's leaves out embedding_layer and adds
\* embedding_dim, so that constructing from either fails with a TypeError.
C9_ConfigPerClass ==
    /\ last.op = "get_config" =>
         CASE obj.cls \in {"TransformerFFN", "MultiHeadDenseLayer"} ->
                last.ret = ctor.args
           [] obj.cls = "PrePostProcessingWrapper" ->
                last.ret = Restrict(ctor.args, {"dropout_rate", "name"})
           [] obj.cls = "PositionEmbeddingWrapper" ->
                last.ret = Restrict(ctor.args, {"timing", "max_positions", "name"})
                             @@ [embedding_dim |->
                                   ctor.args.embedding_layer.embedding_dim]
    /\ last.op = "from_config" =>
         CASE obj.cls \in {"TransformerFFN", "MultiHeadDenseLayer"} ->
                last.status = "ok" /\ last.ret = ctor.args
           [] obj.cls = "PrePostProcessingWrapper" ->
                last.status = "TypeError" /\ last.why = "missing required argument"
           [] obj.cls = "PositionEmbeddingWrapper" ->
                last.status = "TypeError" /\ last.why = "unexpected keyword argument"

\* C9's case: an output transform rebuilt from its get_config.
C9_Witness ==
    /\ last.op = "from_config"
    /\ obj.cls = "MultiHeadDenseLayer"
    /\ obj._is_output_transform
    /\ ~obj._use_bias
    /\ last.status = "ok"
    /\ last.ret.is_output_transform

SinusoidsAdded ==
    /\ PEWCalled
    /\ obj._timing = "sinusoids"
    /\ last.status = "ok"
    /\ last.out # last.emb

Positions(emb, time) ==
    IF Len(emb.shape) = 3 THEN [i \in 1..emb.shape[2] |-> i - 1] ELSE <<time>>

\* The row of position 0: 0 in the sine channels, 1 in the cosine channels,
\* 0 in the padding.
RowAtZero(row, d) ==
    \A i \in 1..d :
       row[i] = (IF i <= d \div 2 THEN "zero"
                 ELSE IF i <= 2 * (d \div 2) THEN "one" ELSE "zero")

\* C10: for d >= 2 channels the sinusoidal signal has d channels, d \div 2
\* sines, d \div 2 cosines, then d % 2 of padding, and at position 0 it is 0
\* in every sine channel and 1 in every cosine channel.
C10_SignalAtZero ==
    SinusoidsAdded =>
      LET d == last.emb.shape[Len(last.emb.shape)]
          signal == last.out.data.signal
          position == Positions(last.emb, last.time)
      IN d >= 2 =>
           /\ Len(signal) = Len(position)
           /\ \A p \in 1..Len(signal) :
                /\ Len(signal[p]) = d
                /\ position[p] = 0 => RowAtZero(signal[p], d)

\* C10 from four channels on, where there are two timescales or more.
C10_SignalAtZeroFromFour ==
    SinusoidsAdded =>
      LET d == last.emb.shape[Len(last.emb.shape)]
          signal == last.out.data.signal
          position == Positions(last.emb, last.time)
      IN /\ Len(signal) = Len(position)
         /\ \A p \in 1..Len(signal) :
              /\ Len(signal[p]) = d
              /\ (position[p] = 0 /\ d >= 4) => RowAtZero(signal[p], d)
              /\ d \in {2, 3} => \A i \in 1..(2 * (d \div 2)) : signal[p][i] = "nan"

=============================================================================
